---- MODULE Spec2Model ----
(***************************************************************************)
(* The chat session hook useAgentChat (frontend/src/lib/api.ts, 103-248):  *)
(* the AgentState it owns, the shared AbortController reference, and the   *)
(* asynchronous turns started by sendText, refineWith and uploadAndSearch. *)
(* A turn is split at its await points: the dispatch (everything up to the *)
(* first await) is one step, and each continuation after an await (the     *)
(* rest of the try block, or catch, followed by finally) is one step.      *)
(***************************************************************************)
EXTENDS Integers, Sequences, FiniteSets, TLC

VARIABLES
    messages,      \* state.messages: sequence of [id, role, content]
    products,      \* state.products: sequence of product ids
    refinements,   \* state.refinements: sequence of chip labels
    isLoading,     \* state.isLoading
    lastUploadId,  \* state.lastUploadId, Undefined until an upload succeeds
    abortRef,      \* abortRef.current: index in turns of the controller's turn, 0 for null
    turns,         \* every turn dispatched so far, in dispatch order
    uuidCount,     \* number of crypto.randomUUID() calls made so far
    page           \* the product page: the request being served and what it rendered

\* The variables of the chat hook.
chatVars == <<messages, products, refinements, isLoading, lastUploadId, abortRef, turns, uuidCount>>

vars == <<messages, products, refinements, isLoading, lastUploadId, abortRef, turns, uuidCount, page>>

\* The three fields of AgentState that hold conversation content.
session == <<messages, products, refinements>>

----------------------------------------------------------------------------
\* Bounds of the model.

\* Turns dispatched in one behaviour of Spec.
MaxTurns == 3

\* Turns dispatched in one behaviour of SpecLong (typed conversations).
MaxLongTurns == 6

\* Turns dispatched in one behaviour of SpecFair (sessions whose requests settle).
MaxFairTurns == 2

----------------------------------------------------------------------------
\* Values.

\* lastUploadId?: string, when the property is not set.
Undefined == "undefined"

\* slice(-10): the number of trailing messages sent as context.
ContextWindow == 10

\* An optional, nullable field of a JSON response: absent, null, or a value.
Absent == [tag |-> "absent", value |-> <<>>]

JsonNull == [tag |-> "null", value |-> <<>>]

Some(v) == [tag |-> "value", value |-> v]

\* a ?? b
Nullish(f) == f.tag \in {"absent", "null"}

Coalesce(f, default) == IF Nullish(f) THEN default ELSE f.value

\* a || b on strings: the empty string is falsy.
OrElse(s, default) == IF s = "" THEN default ELSE s

\* crypto.randomUUID(): the n-th call returns a value no other call returns.
Uuid(n) == "uuid-" \o ToString(n)

WelcomeMessage ==
    [id |-> "m-welcome", role |-> "assistant",
     content |-> "Hi! I can help you find products. What are you looking for today?"]

InitMessages == <<WelcomeMessage>>

InitRefinements == <<"recommendations", "image search", "product details">>

\* The elements of a sequence.
Range(s) == {s[i] : i \in DOMAIN s}

\* Array.prototype.slice(-n): the last n elements, all of them when there are fewer.
SliceLast(s, n) == IF Len(s) <= n THEN s ELSE SubSeq(s, Len(s) - n + 1, Len(s))

\* .slice(-10).map((m) => ({ role: m.role, content: m.content }))
Context(msgs) ==
    [i \in 1..Len(SliceLast(msgs, ContextWindow)) |->
        [role |-> SliceLast(msgs, ContextWindow)[i].role,
         content |-> SliceLast(msgs, ContextWindow)[i].content]]

\* state.messages as sendText and uploadAndSearch read it. Both callbacks are
\* memoized with the dependency list [appendMessage], and appendMessage is
\* memoized with []: the callbacks of the first render are the ones used for
\* the life of the hook, and the `state` they close over is the initial state.
ClosureMessages == InitMessages

\* The body of POST /api/agent/chat.
ChatRequest(text, context) ==
    [endpoint |-> "/api/agent/chat", message |-> text, context |-> context]

\* POST /api/uploads with the file as form data.
UploadRequest(file) ==
    [endpoint |-> "/api/uploads", message |-> file, context |-> <<>>]

\* A marker without its prefix.
MarkerRaw(uploadId) == uploadId

\* `image:${up.upload_id}`
Marker(uploadId) == "image:" \o uploadId

----------------------------------------------------------------------------
\* Inputs.

Texts == {"running shoes"}

Files == {"photo.png"}

\* The chip that is tapped: the first one on display.
Chips(refs) == IF refs = <<>> THEN {} ELSE {Head(refs)}

UploadResponses == {[upload_id |-> "abc123", url |-> "/uploads/abc123"]}

Responses ==
    { [intent |-> "text_recommendation", answer |-> "Here are some picks",
       products |-> Some(<<"a", "b">>), refinements |-> Some(<<"under $50">>)],
      [intent |-> "image_search", answer |-> "Found similar items",
       products |-> Some(<<"p1">>), refinements |-> Absent],
      [intent |-> "chitchat", answer |-> "Hello",
       products |-> Absent, refinements |-> JsonNull],
      [intent |-> "catalog_qna", answer |-> "We ship worldwide",
       products |-> JsonNull, refinements |-> Some(<<"free shipping">>)] }

\* A failed request: a response that is not ok (status, body text), or an
\* error thrown by fetch or by res.json() (message).
Failures ==
    { [kind |-> "status", status |-> "500", body |-> "Internal Server Error", message |-> ""],
      [kind |-> "status", status |-> "404", body |-> "", message |-> ""],
      [kind |-> "thrown", status |-> "", body |-> "", message |-> ""] }

\* An http() that throws the body text alone, with no text for an empty body.
ErrorMessageBodyOnly(f) == IF f.kind = "status" THEN f.body ELSE f.message

\* The message of the Error that the awaited call rejects with: http() throws
\* new Error(text || `Request failed: ${res.status}`) for a response that is
\* not ok; any other error keeps its own message.
ErrorMessage(f) ==
    IF f.kind = "status"
    THEN OrElse(f.body, "Request failed: " \o f.status)
    ELSE f.message

\* The message of the AbortError a fetch rejects with once its signal is aborted.
AbortErrorMessage == "The operation was aborted."

\* The AbortError itself, as the catch block receives it.
AbortError == [kind |-> "abort", status |-> "", body |-> "", message |-> AbortErrorMessage]

----------------------------------------------------------------------------
\* Turns.

NewTurn(op, pc, request) ==
    [op |-> op, pc |-> pc, aborted |-> FALSE, branch |-> "none",
     sent |-> <<request>>, resp |-> <<>>, err |-> <<>>]

Pending(t) == t.pc # "done"

\* A dispatch that does not abort the previous request.
AbortCurrentSkipped(ts, ref) == ts

\* abortRef.current?.abort(): the request of the controller's turn is aborted.
\* Aborting a controller whose turn has settled has no effect.
AbortCurrent(ts, ref) ==
    IF ref # 0 /\ Pending(ts[ref])
    THEN [ts EXCEPT ![ref].aborted = TRUE]
    ELSE ts

\* The fallback text of each operation's catch block.
Fallback(op) == IF op = "sendText" THEN "Something went wrong" ELSE "Upload failed"

UserMessage(id, text) == [id |-> id, role |-> "user", content |-> text]

\* An answer appended under the user's role.
AssistantMessageAsUser(id, text) == [id |-> id, role |-> "user", content |-> text]

AssistantMessage(id, text) == [id |-> id, role |-> "assistant", content |-> text]

\* An appendMessage that puts the new message first.
AppendMessageFirst(msgs, msg) == <<msg>> \o msgs

\* appendMessage(msg): messages: [...prev.messages, msg]
AppendMessage(msgs, msg) == Append(msgs, msg)

\* A reducer that keeps the previous products when the response has none.
ReduceProductsKeep(prev, resp) == Coalesce(resp.products, prev)

\* products: resp.products ?? []
ReduceProducts(prev, resp) == Coalesce(resp.products, <<>>)

\* A reducer that clears the chips when the response has none.
ReduceRefinementsClear(prev, resp) == Coalesce(resp.refinements, <<>>)

\* refinements: resp.refinements ?? prev.refinements
ReduceRefinements(prev, resp) == Coalesce(resp.refinements, prev)

----------------------------------------------------------------------------
\* The product page (frontend/src/app/page.tsx, ProductPage).

\* A nullable string or number field of a ProductDetail.
NullStr == [tag |-> "null", value |-> ""]

Str(v) == [tag |-> "value", value |-> v]

NullInt == [tag |-> "null", value |-> 0]

Int32(v) == [tag |-> "value", value |-> v]

ProductIds == {"a", "b", "p1"}

\* The bodies GET /products/{id} can answer with: product details, or null.
ProductDetails ==
    [tag : {"value"}, id : ProductIds,
     title : {NullStr, Str("Trail Shoe")},
     price_cents : {NullInt, Int32(0), Int32(4999)},
     url : {NullStr, Str("https://shop.example/item")},
     in_stock : BOOLEAN]

\* let product: ProductDetail | null = null
NullProduct ==
    [tag |-> "null", id |-> "", title |-> NullStr, price_cents |-> NullInt,
     url |-> NullStr, in_stock |-> FALSE]

\* No product page has been requested.
IdlePage ==
    [pc |-> "idle", id |-> "", ok |-> FALSE, product |-> NullProduct, view |-> "none"]

\* A ProductPage without the try/catch around getProduct.
TryGetProductUncaught(ok, body) ==
    IF ok THEN [thrown |-> FALSE, product |-> body]
          ELSE [thrown |-> TRUE, product |-> NullProduct]

\* try { product = await ApiClient.getProduct(id) } catch { product = null }
\* ok tells whether getProduct resolved; body is what it resolved with.
TryGetProduct(ok, body) ==
    IF ok THEN [thrown |-> FALSE, product |-> body]
          ELSE [thrown |-> FALSE, product |-> NullProduct]

\* What ProductPage returns: the not-found card when product is falsy, the
\* product view otherwise. An exception that leaves ProductPage reaches the
\* framework's error page.
Render(r) ==
    IF r.thrown THEN "error"
    ELSE IF r.product.tag = "null" THEN "notFound" ELSE "product"

----------------------------------------------------------------------------
Init ==
    /\ messages = InitMessages
    /\ products = <<>>
    /\ refinements = InitRefinements
    /\ isLoading = FALSE
    /\ lastUploadId = Undefined
    /\ abortRef = 0
    /\ turns = <<>>
    /\ uuidCount = 0
    /\ page = IdlePage

\* cancel()
Cancel ==
    /\ turns' = AbortCurrent(turns, abortRef)
    /\ abortRef' = 0
    /\ UNCHANGED <<messages, products, refinements, isLoading, lastUploadId, uuidCount>>

\* A sendText that starts the turn without an image: it unsets lastUploadId.
SendTextForgetsUpload(text) ==
    /\ messages' = AppendMessage(messages, UserMessage(Uuid(uuidCount + 1), text))
    /\ uuidCount' = uuidCount + 1
    /\ isLoading' = TRUE
    /\ turns' = Append(AbortCurrent(turns, abortRef),
                       NewTurn("sendText", "chat",
                               ChatRequest(text, Context(ClosureMessages))))
    /\ abortRef' = Len(turns) + 1
    /\ lastUploadId' = Undefined
    /\ UNCHANGED <<products, refinements>>

\* sendText(text), up to the await of ApiClient.chat.
SendText(text) ==
    /\ messages' = AppendMessage(messages, UserMessage(Uuid(uuidCount + 1), text))
    /\ uuidCount' = uuidCount + 1
    /\ isLoading' = TRUE
    /\ turns' = Append(AbortCurrent(turns, abortRef),
                       NewTurn("sendText", "chat",
                               ChatRequest(text, Context(ClosureMessages))))
    /\ abortRef' = Len(turns) + 1
    /\ UNCHANGED <<products, refinements, lastUploadId>>

\* A refineWith with a path of its own: no abort of the previous request,
\* no context.
RefineWithAbbreviated(chip) ==
    /\ messages' = AppendMessage(messages, UserMessage(Uuid(uuidCount + 1), chip))
    /\ uuidCount' = uuidCount + 1
    /\ isLoading' = TRUE
    /\ turns' = Append(turns, NewTurn("sendText", "chat", ChatRequest(chip, <<>>)))
    /\ abortRef' = Len(turns) + 1
    /\ UNCHANGED <<products, refinements, lastUploadId>>

\* refineWith(chip)
RefineWith(chip) == SendText(chip)

\* uploadAndSearch(file), up to the await of ApiClient.uploadImage.
UploadAndSearch(file) ==
    /\ isLoading' = TRUE
    /\ turns' = Append(AbortCurrent(turns, abortRef),
                       NewTurn("uploadAndSearch", "upload", UploadRequest(file)))
    /\ abortRef' = Len(turns) + 1
    /\ UNCHANGED <<messages, products, refinements, lastUploadId, uuidCount>>

\* An upload continuation that does not record the upload id.
UploadOkUnrecorded(k, up) ==
    /\ turns[k].pc = "upload"
    /\ ~turns[k].aborted
    /\ messages' = AppendMessage(messages, UserMessage(Uuid(uuidCount + 1), Marker(up.upload_id)))
    /\ uuidCount' = uuidCount + 1
    /\ turns' = [turns EXCEPT ![k].pc = "chat",
                              ![k].sent = Append(@, ChatRequest(Marker(up.upload_id),
                                                                Context(ClosureMessages)))]
    /\ UNCHANGED <<products, refinements, isLoading, abortRef, lastUploadId>>

\* An upload whose request was not given the abort signal: it resolves
\* whether or not its controller has been aborted.
UploadOkAfterAbort(k, up) ==
    /\ turns[k].pc = "upload"
    /\ lastUploadId' = up.upload_id
    /\ messages' = AppendMessage(messages, UserMessage(Uuid(uuidCount + 1), Marker(up.upload_id)))
    /\ uuidCount' = uuidCount + 1
    /\ turns' = [turns EXCEPT ![k].pc = "chat",
                              ![k].sent = Append(@, ChatRequest(Marker(up.upload_id),
                                                                Context(ClosureMessages)))]
    /\ UNCHANGED <<products, refinements, isLoading, abortRef>>

\* uploadAndSearch after ApiClient.uploadImage resolved with up, up to the
\* await of ApiClient.chat.
UploadOk(k, up) ==
    /\ turns[k].pc = "upload"
    /\ ~turns[k].aborted
    /\ lastUploadId' = up.upload_id
    /\ messages' = AppendMessage(messages, UserMessage(Uuid(uuidCount + 1), Marker(up.upload_id)))
    /\ uuidCount' = uuidCount + 1
    /\ turns' = [turns EXCEPT ![k].pc = "chat",
                              ![k].sent = Append(@, ChatRequest(Marker(up.upload_id),
                                                                Context(ClosureMessages)))]
    /\ UNCHANGED <<products, refinements, isLoading, abortRef>>

\* A success path without the finally block: isLoading is left as it was.
ChatOkNoFinally(k, resp) ==
    /\ turns[k].pc = "chat"
    /\ ~turns[k].aborted
    /\ messages' = AppendMessage(messages, AssistantMessage(Uuid(uuidCount + 1), resp.answer))
    /\ uuidCount' = uuidCount + 1
    /\ products' = ReduceProducts(products, resp)
    /\ refinements' = ReduceRefinements(refinements, resp)
    /\ isLoading' = isLoading
    /\ turns' = [turns EXCEPT ![k].pc = "done", ![k].branch = "try", ![k].resp = <<resp>>]
    /\ UNCHANGED <<lastUploadId, abortRef>>

\* handleAgentResponse(resp), followed by the finally block of the caller.
ChatOk(k, resp) ==
    /\ turns[k].pc = "chat"
    /\ ~turns[k].aborted
    /\ messages' = AppendMessage(messages, AssistantMessage(Uuid(uuidCount + 1), resp.answer))
    /\ uuidCount' = uuidCount + 1
    /\ products' = ReduceProducts(products, resp)
    /\ refinements' = ReduceRefinements(refinements, resp)
    /\ isLoading' = FALSE
    /\ turns' = [turns EXCEPT ![k].pc = "done", ![k].branch = "try", ![k].resp = <<resp>>]
    /\ UNCHANGED <<lastUploadId, abortRef>>

\* A catch block that also clears the products on display.
CatchClearing(k, e) ==
    /\ messages' = AppendMessage(messages,
                          AssistantMessage(Uuid(uuidCount + 1),
                                           OrElse(ErrorMessage(e), Fallback(turns[k].op))))
    /\ uuidCount' = uuidCount + 1
    /\ isLoading' = FALSE
    /\ products' = <<>>
    /\ turns' = [turns EXCEPT ![k].pc = "done", ![k].branch = "catch", ![k].err = <<e>>]
    /\ UNCHANGED <<refinements, lastUploadId, abortRef>>

\* A catch block that also forgets the last upload.
CatchClearsUpload(k, e) ==
    /\ messages' = AppendMessage(messages,
                          AssistantMessage(Uuid(uuidCount + 1),
                                           OrElse(ErrorMessage(e), Fallback(turns[k].op))))
    /\ uuidCount' = uuidCount + 1
    /\ isLoading' = FALSE
    /\ lastUploadId' = Undefined
    /\ turns' = [turns EXCEPT ![k].pc = "done", ![k].branch = "catch", ![k].err = <<e>>]
    /\ UNCHANGED <<products, refinements, abortRef>>

\* The catch block of sendText or uploadAndSearch for the error e, followed
\* by the finally block.
Catch(k, e) ==
    /\ messages' = AppendMessage(messages,
                          AssistantMessage(Uuid(uuidCount + 1),
                                           OrElse(ErrorMessage(e), Fallback(turns[k].op))))
    /\ uuidCount' = uuidCount + 1
    /\ isLoading' = FALSE
    /\ turns' = [turns EXCEPT ![k].pc = "done", ![k].branch = "catch", ![k].err = <<e>>]
    /\ UNCHANGED <<products, refinements, lastUploadId, abortRef>>

\* A failure that is retried once before it reaches the catch block.
FailRetried(k, f) ==
    /\ Pending(turns[k])
    /\ ~turns[k].aborted
    /\ IF Len(turns[k].sent) < 3
       THEN /\ turns' = [turns EXCEPT ![k].sent = Append(@, @[Len(@)])]
            /\ UNCHANGED <<messages, products, refinements, isLoading, lastUploadId,
                           abortRef, uuidCount>>
       ELSE Catch(k, f)

\* The pending request of turn k fails: the response is not ok, or fetch throws.
Fail(k, f) ==
    /\ Pending(turns[k])
    /\ ~turns[k].aborted
    /\ Catch(k, f)

\* The pending request of turn k was aborted: fetch rejects with an AbortError.
AbortSettle(k) ==
    /\ Pending(turns[k])
    /\ turns[k].aborted
    /\ Catch(k, AbortError)

----------------------------------------------------------------------------
DoSendText == Len(turns) < MaxTurns /\ (\E t \in Texts : SendText(t)) /\ UNCHANGED page

DoRefineWith ==
    Len(turns) < MaxTurns /\ (\E c \in Chips(refinements) : RefineWith(c)) /\ UNCHANGED page

DoUploadAndSearch ==
    Len(turns) < MaxTurns /\ (\E f \in Files : UploadAndSearch(f)) /\ UNCHANGED page

DoUploadOk ==
    (\E k \in DOMAIN turns : \E up \in UploadResponses : UploadOk(k, up)) /\ UNCHANGED page

DoChatOk == (\E k \in DOMAIN turns : \E r \in Responses : ChatOk(k, r)) /\ UNCHANGED page

DoFail == (\E k \in DOMAIN turns : \E f \in Failures : Fail(k, f)) /\ UNCHANGED page

DoAbortSettle == (\E k \in DOMAIN turns : AbortSettle(k)) /\ UNCHANGED page

DoCancel == Cancel /\ UNCHANGED page

Next ==
    \/ DoSendText
    \/ DoRefineWith
    \/ DoUploadAndSearch
    \/ DoUploadOk
    \/ DoChatOk
    \/ DoFail
    \/ DoAbortSettle
    \/ DoCancel

Spec == Init /\ [][Next]_vars

\* The pending request of turn k settles: the awaited call resolves, or it
\* rejects with a failure or with the AbortError of an aborted request.
RequestSettles(k) ==
    /\ k \in DOMAIN turns
    /\ \/ \E up \in UploadResponses : UploadOk(k, up)
       \/ \E r \in Responses : ChatOk(k, r)
       \/ \E f \in Failures : Fail(k, f)
       \/ AbortSettle(k)
    /\ UNCHANGED page

NextFair ==
    \/ Len(turns) < MaxFairTurns /\ DoSendText
    \/ Len(turns) < MaxFairTurns /\ DoRefineWith
    \/ Len(turns) < MaxFairTurns /\ DoUploadAndSearch
    \/ DoUploadOk
    \/ DoChatOk
    \/ DoFail
    \/ DoAbortSettle
    \/ DoCancel

\* The hook with a network that answers: every request that has been issued
\* settles at some point, whatever else happens in the meantime.
SpecFair ==
    Init /\ [][NextFair]_vars /\ \A k \in 1..MaxFairTurns : WF_vars(RequestSettles(k))

----------------------------------------------------------------------------
\* The typed conversation: the form of AgentChat submits the text, and its
\* Send button is disabled while state.isLoading, so that each turn is
\* dispatched after the previous one has settled.

FormSubmit ==
    /\ Len(turns) < MaxLongTurns
    /\ ~isLoading
    /\ \E t \in Texts : SendText(t)
    /\ UNCHANGED page

NextLong ==
    \/ FormSubmit
    \/ DoChatOk
    \/ DoFail

SpecLong == Init /\ [][NextLong]_vars

----------------------------------------------------------------------------
\* The product page: a request for /products/{id} runs ProductPage, which
\* awaits getProduct and renders.

\* ProductPage({params}), up to the await of ApiClient.getProduct(id).
OpenProductPage(id) ==
    /\ page.pc # "fetching"
    /\ page' = [pc |-> "fetching", id |-> id, ok |-> FALSE,
                product |-> NullProduct, view |-> "none"]
    /\ UNCHANGED chatVars

\* ProductPage after getProduct settled: ok with the body, or not ok.
ProductPageSettles(ok, body) ==
    /\ page.pc = "fetching"
    /\ page' = [pc |-> "rendered", id |-> page.id, ok |-> ok,
                product |-> TryGetProduct(ok, body).product,
                view |-> Render(TryGetProduct(ok, body))]
    /\ UNCHANGED chatVars

DoOpenProductPage == \E id \in ProductIds : OpenProductPage(id)

\* getProduct resolves with the JSON body of a reply that is ok.
DoGetProductOk == \E body \in ProductDetails \cup {NullProduct} : ProductPageSettles(TRUE, body)

\* getProduct rejects: the reply is not ok (the product is absent, the server
\* failed), or fetch threw.
DoGetProductFail == \E f \in Failures : ProductPageSettles(FALSE, NullProduct)

NextPage ==
    \/ DoOpenProductPage
    \/ DoGetProductOk
    \/ DoGetProductFail

SpecPage == Init /\ [][NextPage]_vars

----------------------------------------------------------------------------
\* Vocabulary of the properties.

\* Turns whose request is on the network: not settled, and not aborted.
InFlight == {k \in DOMAIN turns : Pending(turns[k]) /\ ~turns[k].aborted}

\* Turns whose request was aborted and whose rejection has not yet been handled.
AbortPending == {k \in DOMAIN turns : Pending(turns[k]) /\ turns[k].aborted}

\* Turn k settles in this step: its try block completes, or its catch block runs.
Settles(k) == Pending(turns[k]) /\ ~Pending(turns'[k])

\* A turn is dispatched in this step.
Dispatches == Len(turns') = Len(turns) + 1

\* The response reducer runs for turn k in this step.
Reduces(k) == Settles(k) /\ turns'[k].branch = "try"

\* Turns whose response has been reduced.
Reduced == {k \in DOMAIN turns : turns[k].branch = "try"}

\* The response that turn k (in Reduced) reduced.
RespOf(k) == turns[k].resp[1]

----------------------------------------------------------------------------
\* C1. Single-flight: when a turn A settles after a later turn B was
\* dispatched (B was dispatched while A was pending), the settlement of A
\* changes none of messages, products and refinements.
CE_C1_SingleFlight ==
    [][\A k \in DOMAIN turns :
          (k < Len(turns) /\ Settles(k)) => UNCHANGED session]_vars

\* C2. Cancellation is silent: the settlement of a turn whose request was
\* aborted, by cancel() or by a later dispatch, appends no message and leaves
\* products and refinements as they were.
CE_C2_SilentCancellation ==
    [][\A k \in DOMAIN turns :
          (turns[k].aborted /\ Settles(k)) =>
              /\ messages' = messages
              /\ products' = products
              /\ refinements' = refinements]_vars

\* C3. isLoading is true if and only if exactly one request is in flight.
\* Stated on the states in which every aborted request's rejection has been
\* handled, where what "in flight" covers is not in question.
CE_C3_LoadingIffOneInFlight ==
    AbortPending = {} => (isLoading <=> Cardinality(InFlight) = 1)

\* C4. isLoading follows the newest turn: while the most recently dispatched
\* turn has not settled, isLoading is true.
CE_C4_LoadingFollowsNewest ==
    (turns # <<>> /\ Pending(turns[Len(turns)])) => isLoading

\* C5. At most one request is on the network at any time; a dispatch aborts
\* every request that was in flight and issues the only one in flight after
\* it; and when no turn is pending, cancel() changes nothing but abortRef and
\* the abort step of a dispatch changes no earlier turn.
THM_C5_AtMostOneOutstanding ==
    /\ [](Cardinality(InFlight) <= 1)
    /\ [][Dispatches =>
            /\ \A k \in InFlight : turns'[k].aborted
            /\ InFlight' = {Len(turns')}]_vars
    /\ [][(\A k \in DOMAIN turns : ~Pending(turns[k])) =>
            /\ ~Dispatches =>
                 UNCHANGED <<messages, products, refinements, isLoading, lastUploadId, turns>>
            /\ Dispatches => SubSeq(turns', 1, Len(turns)) = turns]_vars

\* A later dispatch has aborted an earlier turn that was pending, and the
\* later turn's request is the one in flight.
WIT_C5 ==
    /\ Len(turns) >= 2
    /\ AbortPending # {}
    /\ InFlight = {Len(turns)}

----------------------------------------------------------------------------
\* Turns that issue a chat request in this step: a turn dispatched by
\* sendText, or an uploadAndSearch turn whose upload has just succeeded.
IssuesChat(k) ==
    \/ k \notin DOMAIN turns /\ turns'[k].pc = "chat"
    \/ k \in DOMAIN turns /\ turns[k].pc = "upload" /\ turns'[k].pc = "chat"

\* The chat request turn k has issued, in the state after the step.
ChatSent(k) == turns'[k].sent[Len(turns'[k].sent)]

\* The last n messages of the session, each reduced to its role and content.
LastPairs(msgs, n) ==
    [i \in 1..n |-> [role |-> msgs[Len(msgs) - n + i].role,
                     content |-> msgs[Len(msgs) - n + i].content]]

\* C6. Context bound: a chat request issued from a session that holds more
\* than 10 messages carries exactly the 10 most recent messages, in order,
\* as role and content pairs. The session is read either just before or just
\* after the turn's own user message is appended.
CE_C6_ContextBound ==
    [][\A k \in DOMAIN turns' :
          (IssuesChat(k) /\ Len(messages) > 10) =>
              \/ ChatSent(k).context = LastPairs(messages, 10)
              \/ ChatSent(k).context = LastPairs(messages', 10)]_vars

\* C7. Append-only: the session starts with exactly one message, the
\* assistant's welcome, and every step keeps the messages it found, in place
\* and unchanged, adding only at the end.
THM_C7_AppendOnly ==
    /\ Len(messages) = 1
    /\ messages[1].role = "assistant"
    /\ [][/\ Len(messages') >= Len(messages)
          /\ \A i \in DOMAIN messages : messages'[i] = messages[i]]_vars

\* Every kind of message has been appended after the welcome: a typed text,
\* an image marker, an answer, and the error of an aborted request.
WIT_C7 ==
    /\ Len(messages) >= 5
    /\ \E i \in DOMAIN messages : messages[i].role = "user" /\ messages[i].content = Marker("abc123")
    /\ \E i \in DOMAIN messages : messages[i].content = AbortErrorMessage
    /\ \E k \in DOMAIN turns : turns[k].branch = "try"

\* C8. Products are replaced wholesale: when a response is reduced, products
\* becomes the response's products if the field holds a value, and the empty
\* sequence if the field is absent or null.
THM_C8_ProductsReplaced ==
    [][\A k \in DOMAIN turns :
          Reduces(k) =>
              products' = IF turns'[k].resp[1].products.tag = "value"
                          THEN turns'[k].resp[1].products.value
                          ELSE <<>>]_vars

\* The latest response reduced had no products, an earlier one had some, and
\* products is empty.
WIT_C8 ==
    \E j, k \in Reduced :
        /\ j < k
        /\ \A i \in Reduced : i <= k
        /\ RespOf(j).products.tag = "value" /\ RespOf(j).products.value # <<>>
        /\ RespOf(k).products.tag # "value"
        /\ products = <<>>

\* C9. Refinement persistence: when a response is reduced, refinements
\* becomes the response's refinements if the field holds a value, and keeps
\* the value it had before the reduction if the field is absent or null.
THM_C9_RefinementsPersist ==
    [][\A k \in DOMAIN turns :
          Reduces(k) =>
              refinements' = IF turns'[k].resp[1].refinements.tag = "value"
                             THEN turns'[k].resp[1].refinements.value
                             ELSE refinements]_vars

\* Responses without refinements have been reduced, one with the field absent
\* and one with it null, and the default chips are still on display.
WIT_C9 ==
    /\ \E k \in Reduced : RespOf(k).refinements.tag = "absent"
    /\ \E k \in Reduced : RespOf(k).refinements.tag = "null"
    /\ refinements = InitRefinements

\* C10. Only the response reducer writes products and refinements: a step
\* that changes either of them is the reduction of a successful chat response.
THM_C10_OnlyReducerWrites ==
    [][(products' # products \/ refinements' # refinements) =>
          \E k \in DOMAIN turns : turns[k].pc = "chat" /\ Reduces(k)]_vars

\* After a response supplied products and chips, an upload succeeded, a
\* request failed and one was aborted and handled, and a turn is pending
\* after cancel(): products and refinements are still the response's.
WIT_C10 ==
    /\ \E k \in Reduced : \A i \in DOMAIN turns : i > k => turns[i].branch # "try"
    /\ products # <<>>
    /\ refinements # InitRefinements
    /\ lastUploadId # Undefined
    /\ \E i \in DOMAIN messages : messages[i].content = AbortErrorMessage
    /\ \E i \in DOMAIN messages : messages[i].content = "Internal Server Error"

----------------------------------------------------------------------------
\* Turn k settles in this step through its catch block, its request having
\* failed without having been aborted.
FailsUncancelled(k) ==
    Settles(k) /\ ~turns[k].aborted /\ turns'[k].branch = "catch"

\* The error that the catch block of turn k received in this step.
ErrOf(k) == turns'[k].err[1]

\* The text a failure carries: the body of a response that is not ok, the
\* message of any other error.
FailureText(e) == IF e.kind = "status" THEN e.body ELSE e.message

\* This step appends exactly one message, from the assistant, with this content.
AppendsAssistant(content) ==
    /\ Len(messages') = Len(messages) + 1
    /\ \A i \in DOMAIN messages : messages'[i] = messages[i]
    /\ messages'[Len(messages')].role = "assistant"
    /\ messages'[Len(messages')].content = content

\* C11 as claimed. A chat turn started by sendText or refineWith that fails
\* without having been cancelled appends one assistant message holding the
\* failure's text (the response body for a reply that is not ok), or the
\* generic fallback when the failure carries no text, and leaves isLoading false.
CE_C11_FailureText ==
    [][\A k \in DOMAIN turns :
          (turns[k].op = "sendText" /\ FailsUncancelled(k)) =>
              /\ AppendsAssistant(IF FailureText(ErrOf(k)) # ""
                                  THEN FailureText(ErrOf(k))
                                  ELSE "Something went wrong")
              /\ isLoading' = FALSE]_vars

\* C11 as amended. The message holds the response body when the reply is not
\* ok and has a body, "Request failed: <status>" when it is not ok and has no
\* body, the error's message for any other error, and the generic fallback
\* only when that error's message is empty; isLoading is then false.
THM_C11_FailureMessage ==
    [][\A k \in DOMAIN turns :
          (turns[k].op = "sendText" /\ FailsUncancelled(k)) =>
              /\ AppendsAssistant(
                    IF ErrOf(k).kind = "status"
                    THEN (IF ErrOf(k).body # "" THEN ErrOf(k).body
                          ELSE "Request failed: " \o ErrOf(k).status)
                    ELSE (IF ErrOf(k).message # "" THEN ErrOf(k).message
                          ELSE "Something went wrong"))
              /\ isLoading' = FALSE]_vars

\* Three sendText turns have failed, one in each way: a reply that is not ok
\* with a body, one without, and an error with an empty message.
WIT_C11 ==
    /\ \A k \in DOMAIN turns : turns[k].op = "sendText" /\ turns[k].branch = "catch"
    /\ \E i \in DOMAIN messages : messages[i].content = "Internal Server Error"
    /\ \E i \in DOMAIN messages : messages[i].content = "Request failed: 404"
    /\ \E i \in DOMAIN messages : messages[i].content = "Something went wrong"
    /\ ~isLoading

----------------------------------------------------------------------------
\* C12. Upload failure short-circuits: when the upload request of an
\* uploadAndSearch turn fails, lastUploadId keeps its value, the one message
\* appended is the assistant's (no image marker), and the turn ends having
\* issued the upload request alone, no chat request.
THM_C12_UploadFailureShortCircuits ==
    [][\A k \in DOMAIN turns :
          (turns[k].pc = "upload" /\ FailsUncancelled(k)) =>
              /\ lastUploadId' = lastUploadId
              /\ Len(messages') = Len(messages) + 1
              /\ \A i \in DOMAIN messages : messages'[i] = messages[i]
              /\ messages'[Len(messages')].role = "assistant"
              /\ Len(turns'[k].sent) = 1
              /\ turns'[k].sent[1].endpoint = "/api/uploads"]_vars

\* An upload succeeded in an earlier turn, the upload of a later turn failed,
\* and lastUploadId is still the earlier upload's id.
WIT_C12 ==
    \E j, k \in DOMAIN turns :
        /\ j < k
        /\ turns[j].op = "uploadAndSearch" /\ Len(turns[j].sent) = 2
        /\ turns[k].op = "uploadAndSearch" /\ Len(turns[k].sent) = 1
        /\ turns[k].branch = "catch" /\ ~turns[k].aborted
        /\ lastUploadId = "abc123"

\* C13. A failure of the chat request chained after a successful upload with
\* id u does not undo the upload: lastUploadId is still u, the user message
\* image:u is still in messages, and the assistant's failure message is
\* appended after it.
THM_C13_ChainedFailureKeepsUpload ==
    [][\A k \in DOMAIN turns :
          (turns[k].op = "uploadAndSearch" /\ turns[k].pc = "chat" /\ FailsUncancelled(k)) =>
              /\ turns[k].sent[2].message = "image:" \o lastUploadId'
              /\ \E i \in DOMAIN messages :
                    /\ messages'[i].role = "user"
                    /\ messages'[i].content = "image:" \o lastUploadId'
              /\ Len(messages') = Len(messages) + 1
              /\ \A i \in DOMAIN messages : messages'[i] = messages[i]
              /\ messages'[Len(messages')].role = "assistant"]_vars

\* The chat request chained after the upload abc123 has failed, and the
\* marker message is directly followed by the failure message.
WIT_C13 ==
    /\ \E k \in DOMAIN turns :
          /\ turns[k].op = "uploadAndSearch" /\ Len(turns[k].sent) = 2
          /\ turns[k].branch = "catch" /\ ~turns[k].aborted
    /\ lastUploadId = "abc123"
    /\ Len(messages) >= 3
    /\ messages[Len(messages) - 1].content = "image:abc123"
    /\ messages[Len(messages)].content = "Internal Server Error"

\* C14. Upload failures and chat failures are not conflated: a failure whose
\* error has no message is reported as "Upload failed" when it is the upload
\* request that failed, and as "Something went wrong" when it is a chat
\* request, the one chained after a successful upload included.
CE_C14_DistinctFallbacks ==
    [][\A k \in DOMAIN turns :
          (FailsUncancelled(k) /\ ErrOf(k).kind = "thrown" /\ ErrOf(k).message = "") =>
              messages'[Len(messages')].content =
                  IF turns[k].pc = "upload" THEN "Upload failed"
                                            ELSE "Something went wrong"]_vars

----------------------------------------------------------------------------
\* No request has ever been aborted: every turn was dispatched after the
\* turn before it had settled, and cancel() never found a pending request.
NeverAborted == \A k \in DOMAIN turns : ~turns[k].aborted

\* The number of messages a settled turn that ran alone has appended: two for
\* a text turn, and for an image turn one for each request it issued.
Added(t) == IF t.op = "sendText" THEN 2 ELSE Len(t.sent)

\* The number of messages in the session when turn k was dispatched, when
\* every turn ran alone.
MsgsBefore[k \in Nat] == IF k <= 1 THEN 1 ELSE MsgsBefore[k - 1] + Added(turns[k - 1])

\* The newest turn.
Newest == turns[Len(turns)]

\* C15. Upload-then-search: when turns run one after the other and the newest
\* is an uploadAndSearch whose upload returned id u and whose chat request
\* returned r, the turn has added exactly two messages, the user's image:u
\* and then the assistant's r.answer; products is r.products (empty when r
\* has none), lastUploadId is u and isLoading is false.
THM_C15_UploadThenSearch ==
    (turns # <<>> /\ NeverAborted /\ Newest.op = "uploadAndSearch" /\ Newest.branch = "try") =>
        /\ Len(messages) = MsgsBefore[Len(turns)] + 2
        /\ lastUploadId \in {up.upload_id : up \in UploadResponses}
        /\ messages[Len(messages) - 1].role = "user"
        /\ messages[Len(messages) - 1].content = "image:" \o lastUploadId
        /\ messages[Len(messages)].role = "assistant"
        /\ messages[Len(messages)].content = Newest.resp[1].answer
        /\ products = IF Newest.resp[1].products.tag = "value"
                      THEN Newest.resp[1].products.value ELSE <<>>
        /\ isLoading = FALSE

\* The scenario of the specification: the first turn uploads an image, gets
\* abc123, and the chat request answers "Found similar items" with product p1.
WIT_C15 ==
    /\ Len(turns) = 1
    /\ turns[1].op = "uploadAndSearch"
    /\ Len(messages) = 3
    /\ messages[2] = [id |-> "uuid-1", role |-> "user", content |-> "image:abc123"]
    /\ messages[3] = [id |-> "uuid-2", role |-> "assistant", content |-> "Found similar items"]
    /\ products = <<"p1">>
    /\ lastUploadId = "abc123"
    /\ ~isLoading

\* C16. Text turn: when turns run one after the other and the newest is a
\* sendText(t) whose chat request returned r, the turn has added the user's t
\* and then the assistant's r.answer; products is r.products (empty when r
\* has none), refinements is r.refinements when r has some, and isLoading is
\* false.
THM_C16_TextTurn ==
    (turns # <<>> /\ NeverAborted /\ Newest.op = "sendText" /\ Newest.branch = "try") =>
        /\ Len(messages) = MsgsBefore[Len(turns)] + 2
        /\ messages[Len(messages) - 1].role = "user"
        /\ messages[Len(messages) - 1].content = Newest.sent[1].message
        /\ messages[Len(messages)].role = "assistant"
        /\ messages[Len(messages)].content = Newest.resp[1].answer
        /\ products = IF Newest.resp[1].products.tag = "value"
                      THEN Newest.resp[1].products.value ELSE <<>>
        /\ Newest.resp[1].refinements.tag = "value" =>
              refinements = Newest.resp[1].refinements.value
        /\ isLoading = FALSE

\* The scenario of the specification, after an image turn: "running shoes" is
\* sent and answered "Here are some picks" with two products and one chip.
WIT_C16 ==
    /\ Len(turns) = 2
    /\ NeverAborted
    /\ turns[1].op = "uploadAndSearch" /\ turns[1].branch = "try"
    /\ turns[2].op = "sendText" /\ turns[2].branch = "try"
    /\ messages[4].role = "user" /\ messages[4].content = "running shoes"
    /\ messages[5].role = "assistant" /\ messages[5].content = "Here are some picks"
    /\ Len(products) = 2
    /\ refinements = <<"under $50">>
    /\ ~isLoading

----------------------------------------------------------------------------
OneCall(t) ==
    IF t.op = "sendText"
    THEN Len(t.sent) = 1 /\ t.sent[1].endpoint = "/api/agent/chat"
    ELSE /\ Len(t.sent) \in {1, 2}
         /\ t.sent[1].endpoint = "/api/uploads"
         /\ Len(t.sent) = 2 => t.sent[2].endpoint = "/api/agent/chat"

\* C18. No automatic retries: every turn issues the requests of one call; a
\* turn that has settled or whose request was aborted issues no request any
\* more; and a step that issues a request is a dispatch or the continuation
\* of a successful upload.
THM_C18_NoRetries ==
    /\ [](\A k \in DOMAIN turns : OneCall(turns[k]))
    /\ [][\A k \in DOMAIN turns :
            /\ (~Pending(turns[k]) \/ turns[k].aborted) => turns'[k].sent = turns[k].sent
            /\ turns'[k].sent # turns[k].sent =>
                  turns[k].pc = "upload" /\ turns'[k].pc = "chat"]_vars

\* A turn has failed, a turn has been cancelled and has settled, nothing is
\* pending, and each of them has issued its one request.
WIT_C18 ==
    /\ \A k \in DOMAIN turns : ~Pending(turns[k])
    /\ \E k \in DOMAIN turns : turns[k].branch = "catch" /\ ~turns[k].aborted
    /\ \E k \in DOMAIN turns : turns[k].branch = "catch" /\ turns[k].aborted
    /\ \E k \in DOMAIN turns : turns[k].op = "uploadAndSearch" /\ Len(turns[k].sent) = 2
    /\ ~isLoading

----------------------------------------------------------------------------
\* C19. Product retrieval never propagates an exception: once the product
\* page has rendered, it shows the "Product not found" card whenever
\* getProduct failed, it never shows the framework's error page, and it shows
\* the product view only when getProduct succeeded.
THM_C19_ProductNotFound ==
    page.pc = "rendered" =>
        /\ page.view \in {"notFound", "product"}
        /\ ~page.ok => page.view = "notFound"
        /\ page.view = "product" => page.ok /\ page.product.tag = "value"

\* getProduct has failed for product p1 and the page shows the not-found card.
WIT_C19 ==
    /\ page.pc = "rendered"
    /\ page.id = "p1"
    /\ ~page.ok
    /\ page.view = "notFound"

----------------------------------------------------------------------------
\* C20. The context is taken from the messages as they stand when the
\* request is issued: a chat request issued from a session of n <= 10
\* messages carries all n of them, in order, as role and content pairs, the
\* messages of earlier turns included. The session is read either just before
\* or just after the step's own user message is appended.
CE_C20_ContextIsCurrent ==
    [][\A k \in DOMAIN turns' :
          (IssuesChat(k) /\ Len(messages') <= 10) =>
              \/ ChatSent(k).context = LastPairs(messages, Len(messages))
              \/ ChatSent(k).context = LastPairs(messages', Len(messages'))]_vars

----------------------------------------------------------------------------
\* The chat request sendText(text) issues from the current state: the text,
\* with state.messages.slice(-10) as the callback reads it.
SendTextRequest(text) == ChatRequest(text, Context(ClosureMessages))

\* The response a turn has reduced, in the state after the step.
RespNow(k) == turns'[k].resp[1]

\* C21. The chat turn chained after a successful upload behaves as the chat
\* turn of sendText("image:u") does: the request it issues is the one
\* sendText would issue from that state (message image:u and the same
\* context), its success is reduced as a typed turn's response is, and its
\* failure appends what the failure of a typed turn appends, the message of
\* the error or sendText's fallback "Something went wrong", with isLoading
\* false and nothing else changed.
CE_C21_ChainedTurnAsTyped ==
    [][\A k \in DOMAIN turns :
          turns[k].op = "uploadAndSearch" =>
              /\ IssuesChat(k) =>
                    ChatSent(k) = SendTextRequest("image:" \o lastUploadId')
              /\ (turns[k].pc = "chat" /\ Reduces(k)) =>
                    /\ AppendsAssistant(RespNow(k).answer)
                    /\ products' = ReduceProducts(products, RespNow(k))
                    /\ refinements' = ReduceRefinements(refinements, RespNow(k))
                    /\ isLoading' = FALSE
                    /\ lastUploadId' = lastUploadId
              /\ (turns[k].pc = "chat" /\ FailsUncancelled(k)) =>
                    /\ AppendsAssistant(OrElse(ErrorMessage(ErrOf(k)),
                                               Fallback("sendText")))
                    /\ isLoading' = FALSE
                    /\ UNCHANGED <<products, refinements, lastUploadId>>]_vars

----------------------------------------------------------------------------
\* C22. A superseded upload leaves no upload behind: once an uploadAndSearch
\* turn in its upload phase is no longer the turn of the current controller
\* (a new turn was dispatched, or cancel() was called), it never reaches its
\* chat phase and issues no further request, and the step that settles it
\* keeps lastUploadId and appends no user message, so no image marker.
THM_C22_SupersededUploadInert ==
    [][\A k \in DOMAIN turns :
          (turns[k].op = "uploadAndSearch" /\ turns[k].pc = "upload" /\ abortRef # k) =>
              /\ turns'[k].pc \in {"upload", "done"}
              /\ turns'[k].sent = turns[k].sent
              /\ Settles(k) =>
                    /\ turns'[k].branch = "catch"
                    /\ lastUploadId' = lastUploadId
                    /\ \A i \in DOMAIN messages' :
                          i \notin DOMAIN messages => messages'[i].role # "user"]_vars

\* An upload was superseded by a later turn and has since settled, as has
\* every other turn: it issued the upload request alone, lastUploadId is
\* unset and no message of the session is an image marker.
WIT_C22 ==
    /\ \E k \in DOMAIN turns :
          /\ k < Len(turns)
          /\ turns[k].op = "uploadAndSearch" /\ turns[k].aborted
          /\ turns[k].pc = "done" /\ Len(turns[k].sent) = 1
    /\ \A k \in DOMAIN turns : ~Pending(turns[k])
    /\ lastUploadId = Undefined
    /\ \A i \in DOMAIN messages : messages[i].content # "image:abc123"

----------------------------------------------------------------------------
\* The upload of turn k succeeds in this step: the turn goes from its upload
\* phase to its chat phase.
UploadSucceeds(k) == turns[k].pc = "upload" /\ turns'[k].pc = "chat"

\* This step appends exactly one message, from the user, with this content.
AppendsUser(content) ==
    /\ Len(messages') = Len(messages) + 1
    /\ \A i \in DOMAIN messages : messages'[i] = messages[i]
    /\ messages'[Len(messages')].role = "user"
    /\ messages'[Len(messages')].content = content

\* C23. lastUploadId is consistent with the message history: it is unset
\* initially; a step changes it only if an upload succeeds in that step; a
\* step in which an upload succeeds leaves it holding an upload id u and
\* appends the user message image:u; and dispatches (sendText, refineWith,
\* uploadAndSearch), settlements (responses, failures, abort rejections) and
\* cancel() leave it as it is.
THM_C23_LastUploadIdTracksMarkers ==
    /\ lastUploadId = Undefined
    /\ [][/\ lastUploadId' # lastUploadId => \E k \in DOMAIN turns : UploadSucceeds(k)
          /\ \A k \in DOMAIN turns :
                UploadSucceeds(k) =>
                    /\ \E up \in UploadResponses : lastUploadId' = up.upload_id
                    /\ AppendsUser("image:" \o lastUploadId')
          /\ (Dispatches \/ abortRef' = 0 \/ \E k \in DOMAIN turns : Settles(k)) =>
                lastUploadId' = lastUploadId]_vars

\* An upload has succeeded with id abc123; after it a typed turn has failed,
\* an aborted turn has settled, a response has been reduced and cancel() has
\* been called, and lastUploadId is still abc123 with the marker in the history.
WIT_C23 ==
    /\ lastUploadId = "abc123"
    /\ \E j, k, l \in DOMAIN turns :
          /\ turns[j].op = "uploadAndSearch" /\ Len(turns[j].sent) = 2
          /\ j < k /\ turns[k].op = "sendText"
          /\ turns[k].branch = "catch" /\ ~turns[k].aborted
          /\ j < l /\ turns[l].aborted /\ ~Pending(turns[l])
    /\ abortRef = 0
    /\ Reduced # {}
    /\ \E i \in DOMAIN messages :
          messages[i].role = "user" /\ messages[i].content = "image:abc123"

----------------------------------------------------------------------------
\* No request is pending and the session is not loading.
Quiescent == (\A k \in DOMAIN turns : ~Pending(turns[k])) /\ ~isLoading

\* C24. Every turn reaches a terminal state: when every issued request
\* settles at some point, a session with a pending request or with isLoading
\* true always reaches a state with no pending request and isLoading false,
\* and a session in such a state stays in it until sendText, refineWith or
\* uploadAndSearch dispatches the next turn.
THM_C24_EveryTurnTerminates ==
    /\ (~Quiescent) ~> Quiescent
    /\ [][(Quiescent /\ ~Dispatches) => Quiescent']_vars

\* Every turn of a session has settled, one with a response after its upload
\* and one, superseded, with an abort rejection, and the session is not loading.
WIT_C24 ==
    /\ Len(turns) = MaxFairTurns
    /\ Quiescent
    /\ \E k \in DOMAIN turns :
          turns[k].op = "uploadAndSearch" /\ turns[k].branch = "try"
    /\ \E k \in DOMAIN turns : turns[k].branch = "catch" /\ turns[k].aborted

====
